---- MODULE Spec2Model ----
(***************************************************************************)
(* Model of litmus/cmds/cmd_run.py: the `run` command handler.             *)
(*                                                                         *)
(* main(args) checks that sdb exists, loads the project list, resolves    *)
(* the requested project by name, appends the project's path to the       *)
(* process-wide sys.path, imports the module `userscript` and calls its   *)
(* main() with five keyword arguments.                                     *)
(*                                                                         *)
(* The process-wide state (sys.path, sys.modules, the file system) lives  *)
(* across invocations of main; the locals of main live for one            *)
(* invocation.  Every statement of main is one action, because each of    *)
(* them can raise and end the invocation.                                  *)
(***************************************************************************)
EXTENDS Naturals, Sequences, FiniteSets

\* ------------------------------------------------------------------ bounds
\* Invocations of main() in one process.
MaxInv == 2
\* Longest project list load_project_list returns.
MaxLen == 2

\* ------------------------------------------------------------ input domains
Names == {"alpha", "beta"}
Dirs == {"/p/a", "/p/b"}
Params == {"p1", "p2"}
WorkingDirs == {"w1", "w2"}
Topologies == {"t1", "t2"}
ScriptErrors == {"e1", "e2"}

\* Python's None, for the string-valued slots of the model.
None == "None"

\* What a directory holds: no userscript module, a userscript module that
\* defines main, or a userscript module without main.
Kinds == {"none", "main", "nomain"}

\* A project record, as load_project_list yields it: prj['name'], prj['path'].
Records == [name : Names, path : Dirs]

\* The default of next(..., None) at line 25.
NoProject == [name |-> None, path |-> None]

\* The lists load_project_list can return.
ProjectLists == UNION {[1..n -> Records] : n \in 0..MaxLen}

\* The parsed CLI arguments main receives.
Args ==
    [projects : {"projects"}, project : Names, param : Params,
     workingdir : WorkingDirs, topology : Topologies]

NoArgs ==
    [projects |-> None, project |-> None, param |-> None,
     workingdir |-> None, topology |-> None]

\* Exceptions, all of one shape: the type and what it carries.
NoError == [type |-> None, arg |-> <<>>]

VARIABLES
    sys_path,     \* sys.path: the process-wide module search path
    sys_modules,  \* sys.modules['userscript']: directory of the loaded module, or None
    fs,           \* the file system: what each directory holds
    inv,          \* invocations of main started so far in this process
    pc,           \* position of the current invocation
    args,         \* main's parameter
    prj_list,     \* local prj_list
    project,      \* local project
    userscript,   \* local name bound by `import userscript` (its directory)
    error,        \* the exception main ended with, or NoError
    trace,        \* history: the steps this invocation has executed, with outcomes
    path0,        \* history: sys.path when this invocation started
    called,       \* history: the calls of userscript.main made by this invocation
    raised        \* history: the exception userscript.main raised, or NoError

vars ==
    <<sys_path, sys_modules, fs, inv, pc, args, prj_list, project, userscript,
      error, trace, path0, called, raised>>

process_vars == <<sys_path, sys_modules, fs>>

Event(s, o) == [step |-> s, outcome |-> o]

\* ------------------------------------------------------------- exceptions
\* sdb_exist() found no sdb.
SdbMissing == [type |-> "Exception", arg |-> <<"sdb">>]

\* Variant: the message is not formatted with the name.
ProjectNotFound_noname(n) ==
    [type |-> "Exception", arg |-> <<"Project does not exists">>]

\* 'Project {} does not exists'.format(args.project)
ProjectNotFound(n) ==
    [type |-> "Exception", arg |-> <<"Project ", n, " does not exists">>]

\* `import userscript` found no such module.
ModuleNotFound == [type |-> "ModuleNotFoundError", arg |-> <<"userscript">>]

\* `userscript.main` on a module without main.
NoMain == [type |-> "AttributeError", arg |-> <<"userscript", "main">>]

\* Whatever userscript.main raises.
ScriptError(e) == [type |-> "ScriptError", arg |-> <<e>>]

\* ------------------------------------------------------------- pure parts
\* Variant: the search keeps the last record of that name.
RECURSIVE FirstMatch_last(_, _)
FirstMatch_last(L, n) ==
    IF L = <<>> THEN NoProject
    ELSE IF L[Len(L)].name = n THEN L[Len(L)]
    ELSE FirstMatch_last(SubSeq(L, 1, Len(L) - 1), n)

\* next((prj for prj in prj_list if prj['name'] == args.project), None):
\* the first record, in list order, whose name equals n.
RECURSIVE FirstMatch(_, _)
FirstMatch(L, n) ==
    IF L = <<>> THEN NoProject
    ELSE IF Head(L).name = n THEN Head(L)
    ELSE FirstMatch(Tail(L), n)

\* The import system's search: the first entry of the path, in order, whose
\* directory holds a module named userscript.
RECURSIVE FindModule(_, _)
FindModule(path, files) ==
    IF path = <<>> THEN None
    ELSE IF files[Head(path)] # "none" THEN Head(path)
    ELSE FindModule(Tail(path), files)

\* `import userscript`: a module already in sys.modules is bound as it is,
\* without a search; otherwise sys.path is searched.
ImportTarget ==
    IF sys_modules # None THEN sys_modules ELSE FindModule(sys_path, fs)

\* Variant: param and workingdir change places.
MainKwargs_swapped ==
    [project_name |-> args.project,
     project_path |-> project.path,
     param |-> args.workingdir,
     workingdir |-> args.param,
     topology |-> args.topology]

\* The keyword arguments of the call at lines 31-35.
MainKwargs ==
    [project_name |-> args.project,
     project_path |-> project.path,
     param |-> args.param,
     workingdir |-> args.workingdir,
     topology |-> args.topology]

\* Variant: sys.path.insert(0, project['path'])
PathAfterAppend_front == <<project.path>> \o sys_path

\* sys.path.append(project['path'])
PathAfterAppend == Append(sys_path, project.path)

\* ------------------------------------------------------------------ state
Terminal == {"Succeeded", "Failed"}

Init ==
    /\ sys_path = <<>>
    /\ sys_modules = None
    /\ fs \in [Dirs -> Kinds]
    /\ inv = 0
    /\ pc = "idle"
    /\ args = NoArgs
    /\ prj_list = <<>>
    /\ project = NoProject
    /\ userscript = None
    /\ error = NoError
    /\ trace = <<>>
    /\ path0 = <<>>
    /\ called = <<>>
    /\ raised = NoError

\* The invocation ends with exception e.
Raise(e) ==
    /\ pc' = "Failed"
    /\ error' = e

\* main(args) is entered: a fresh frame in the same process.
Start ==
    /\ pc \in Terminal \cup {"idle"}
    /\ inv < MaxInv
    /\ \E a \in Args : args' = a
    /\ inv' = inv + 1
    /\ pc' = "sdb_exist"
    /\ prj_list' = <<>>
    /\ project' = NoProject
    /\ userscript' = None
    /\ error' = NoError
    /\ trace' = <<>>
    /\ path0' = sys_path
    /\ called' = <<>>
    /\ raised' = NoError
    /\ UNCHANGED process_vars

\* Variant: the failure of sdb_exist() is swallowed and main goes on.
SdbExist_ignored ==
    /\ pc = "sdb_exist"
    /\ \E ok \in BOOLEAN :
         /\ pc' = "load"
         /\ trace' = Append(trace, Event("sdb_exist", IF ok THEN "ok" ELSE "raise"))
         /\ UNCHANGED error
    /\ UNCHANGED <<process_vars, inv, args, prj_list, project, userscript,
                   path0, called, raised>>

\* Line 22: sdb_exist() returns, or raises when sdb is not installed.
SdbExist ==
    /\ pc = "sdb_exist"
    /\ \E ok \in BOOLEAN :
         IF ok
         THEN /\ pc' = "load"
              /\ trace' = Append(trace, Event("sdb_exist", "ok"))
              /\ UNCHANGED error
         ELSE /\ Raise(SdbMissing)
              /\ trace' = Append(trace, Event("sdb_exist", "raise"))
    /\ UNCHANGED <<process_vars, inv, args, prj_list, project, userscript,
                   path0, called, raised>>

\* Line 23: prj_list = load_project_list(args.projects)
LoadProjectList ==
    /\ pc = "load"
    /\ \E L \in ProjectLists : prj_list' = L
    /\ pc' = "resolve"
    /\ trace' = Append(trace, Event("load_project_list", "ok"))
    /\ UNCHANGED <<process_vars, inv, args, project, userscript, error,
                   path0, called, raised>>

\* Variant: the exception is built and not raised; main goes on with None.
Resolve_noraise ==
    /\ pc = "resolve"
    /\ project' = FirstMatch(prj_list, args.project)
    /\ pc' = "append"
    /\ trace' = Append(trace, Event("resolve", IF project' = NoProject THEN "none" ELSE "ok"))
    /\ UNCHANGED error
    /\ UNCHANGED <<process_vars, inv, args, prj_list, userscript, path0,
                   called, raised>>

\* Lines 24-27: the search, and the raise when it found nothing.
Resolve ==
    /\ pc = "resolve"
    /\ project' = FirstMatch(prj_list, args.project)
    /\ IF project' = NoProject
       THEN /\ Raise(ProjectNotFound(args.project))
            /\ trace' = Append(trace, Event("resolve", "raise"))
       ELSE /\ pc' = "append"
            /\ trace' = Append(trace, Event("resolve", "ok"))
            /\ UNCHANGED error
    /\ UNCHANGED <<process_vars, inv, args, prj_list, userscript, path0,
                   called, raised>>

\* Line 28: sys.path.append(project['path'])
AppendPath ==
    /\ pc = "append"
    /\ sys_path' = PathAfterAppend
    /\ pc' = "import"
    /\ trace' = Append(trace, Event("sys.path.append", "ok"))
    /\ UNCHANGED <<sys_modules, fs, inv, args, prj_list, project, userscript,
                   error, path0, called, raised>>

\* Line 30: import userscript
ImportUserscript ==
    /\ pc = "import"
    /\ IF ImportTarget = None
       THEN /\ Raise(ModuleNotFound)
            /\ trace' = Append(trace, Event("import", "raise"))
            /\ UNCHANGED <<sys_modules, userscript>>
       ELSE /\ sys_modules' = ImportTarget
            /\ userscript' = ImportTarget
            /\ pc' = "call"
            /\ trace' = Append(trace, Event("import", "ok"))
            /\ UNCHANGED error
    /\ UNCHANGED <<sys_path, fs, inv, args, prj_list, project, path0, called,
                   raised>>

\* Lines 31-35: userscript.main is looked up and called.
CallMain ==
    /\ pc = "call"
    /\ IF fs[userscript] = "nomain"
       THEN /\ Raise(NoMain)
            /\ trace' = Append(trace, Event("main", "noattr"))
            /\ UNCHANGED called
       ELSE /\ called' =
                 Append(called, [module |-> userscript, kwargs |-> MainKwargs])
            /\ pc' = "in_main"
            /\ trace' = Append(trace, Event("main", "call"))
            /\ UNCHANGED error
    /\ UNCHANGED <<process_vars, inv, args, prj_list, project, userscript,
                   path0, raised>>

\* Variant: the call is made a second time after it returned.
ScriptReturns_again ==
    /\ pc = "in_main"
    /\ pc' = "call"
    /\ trace' = Append(trace, Event("main", "return"))
    /\ UNCHANGED <<process_vars, inv, args, prj_list, project, userscript,
                   error, path0, called, raised>>

\* Line 35: userscript.main returns; main falls off its end.
ScriptReturns ==
    /\ pc = "in_main"
    /\ pc' = "Succeeded"
    /\ trace' = Append(trace, Event("main", "return"))
    /\ UNCHANGED <<process_vars, inv, args, prj_list, project, userscript,
                   error, path0, called, raised>>

\* Variant: main catches the script's exception and raises its own.
ScriptRaises_wrapped ==
    /\ pc = "in_main"
    /\ \E e \in ScriptErrors :
         /\ raised' = ScriptError(e)
         /\ Raise([type |-> "Exception", arg |-> <<"userscript failed">>])
    /\ trace' = Append(trace, Event("main", "raise"))
    /\ UNCHANGED <<process_vars, inv, args, prj_list, project, userscript,
                   path0, called>>

\* Lines 31-35: userscript.main raises; nothing in main catches it.
ScriptRaises ==
    /\ pc = "in_main"
    /\ \E e \in ScriptErrors :
         /\ raised' = ScriptError(e)
         /\ Raise(ScriptError(e))
    /\ trace' = Append(trace, Event("main", "raise"))
    /\ UNCHANGED <<process_vars, inv, args, prj_list, project, userscript,
                   path0, called>>

Next ==
    \/ Start
    \/ SdbExist
    \/ LoadProjectList
    \/ Resolve
    \/ AppendPath
    \/ ImportUserscript
    \/ CallMain
    \/ ScriptReturns
    \/ ScriptRaises

Spec == Init /\ [][Next]_vars

\* ------------------------------------------------------- claim vocabulary
\* The invocation has executed step s with outcome o.
Did(s, o) == \E k \in 1..Len(trace) : trace[k] = Event(s, o)

\* The invocation has executed step s, whatever came of it.
Stepped(s) == \E k \in 1..Len(trace) : trace[k].step = s

\* How often event ev occurs in sequence t.
Count(t, ev) == Cardinality({k \in 1..Len(t) : t[k] = ev})

IsPrefix(s, t) == Len(s) <= Len(t) /\ SubSeq(t, 1, Len(s)) = s

\* Index i holds the earliest record of prj_list named n.
EarliestAt(i, n) ==
    /\ i \in 1..Len(prj_list)
    /\ prj_list[i].name = n
    /\ \A j \in 1..(i - 1) : prj_list[j].name # n

SomeMatch == \E i \in 1..Len(prj_list) : prj_list[i].name = args.project

\* The states of the invocation, as the design names them.
Stage(p) ==
    IF p \in {"sdb_exist", "load", "resolve"} THEN "AwaitingResolution"
    ELSE IF p \in {"append", "import", "call", "in_main"} THEN "Invoking"
    ELSE p

StageAfter(st) ==
    IF st = "AwaitingResolution" THEN {"AwaitingResolution", "Invoking", "Failed"}
    ELSE IF st = "Invoking" THEN {"Invoking", "Succeeded", "Failed"}
    ELSE {st}

\* ------------------------------------------------------------------ claims
\* C1: once resolution has run, if some record of the list has the
\* requested name the result is the earliest such record and no not-found
\* error was raised; if none has, the invocation failed with the
\* project-not-found error.
ResolveFirstMatch ==
    Stepped("resolve") =>
        IF SomeMatch
        THEN /\ \E i \in 1..Len(prj_list) :
                   EarliestAt(i, args.project) /\ project = prj_list[i]
             /\ Did("resolve", "ok")
             /\ ~Did("resolve", "raise")
        ELSE /\ pc = "Failed"
             /\ error.type = "Exception"
             /\ trace[Len(trace)] = Event("resolve", "raise")

\* C1 witness: two records share the requested name, with different
\* paths, and resolution returned the first.
ResolveFirstMatchWitness ==
    /\ Did("resolve", "ok")
    /\ Len(prj_list) = 2
    /\ prj_list[1].name = args.project
    /\ prj_list[2].name = args.project
    /\ prj_list[1].path # prj_list[2].path
    /\ project = prj_list[1]

\* C2: the prerequisite check succeeds before the list is loaded and
\* searched; the search path is mutated, userscript imported and its main
\* called only after the check and a resolution that found a record.
OrderInv ==
    /\ \A k \in 1..Len(trace) :
         trace[k].step \in {"load_project_list", "resolve"} =>
             \E i \in 1..(k - 1) : trace[i] = Event("sdb_exist", "ok")
    /\ \A k \in 1..Len(trace) :
         trace[k].step \in {"sys.path.append", "import", "main"} =>
             /\ \E i \in 1..(k - 1) : \E j \in (i + 1)..(k - 1) :
                    /\ trace[i] = Event("sdb_exist", "ok")
                    /\ trace[j] = Event("resolve", "ok")
             /\ project # NoProject
             /\ project.name = args.project
    /\ sys_path # path0 => Did("sys.path.append", "ok")
    /\ (userscript # None \/ called # <<>>) => Did("import", "ok")

\* C2 witness: the invocation got as far as calling the script's main.
OrderWitness == Did("main", "call") /\ inv = 2

\* C3: when no record of the loaded list has the requested name, the
\* invocation has failed with an error carrying that name, the search path
\* is as it was, userscript was not imported and its main was not called.
NotFoundAborts ==
    (Stepped("resolve") /\ ~SomeMatch) =>
        /\ pc = "Failed"
        /\ error.type = "Exception"
        /\ \E k \in 1..Len(error.arg) : error.arg[k] = args.project
        /\ sys_path = path0
        /\ ~Stepped("sys.path.append")
        /\ ~Stepped("import")
        /\ ~Stepped("main")
        /\ userscript = None
        /\ called = <<>>

\* C3 witness: a non-empty list without the requested name, in a process
\* whose search path an earlier invocation has extended.
NotFoundWitness ==
    /\ Did("resolve", "raise")
    /\ prj_list # <<>>
    /\ path0 # <<>>

\* C4: the prerequisite check is the first step and happens once; when it
\* fails the invocation has failed with nothing else done.
SdbFirstOnce ==
    /\ trace # <<>> => trace[1].step = "sdb_exist"
    /\ \A k \in 2..Len(trace) : trace[k].step # "sdb_exist"
    /\ pc \notin {"idle", "sdb_exist"} => Stepped("sdb_exist")
    /\ Did("sdb_exist", "raise") =>
        /\ pc = "Failed"
        /\ error = SdbMissing
        /\ Len(trace) = 1
        /\ prj_list = <<>>
        /\ project = NoProject
        /\ sys_path = path0
        /\ userscript = None
        /\ called = <<>>

\* C4 witness: the check failed in a process that has run main before.
SdbFailWitness == Did("sdb_exist", "raise") /\ path0 # <<>>

\* C5: every call of the script's main carries exactly the five keyword
\* arguments, with the CLI's values and the path of the earliest record
\* of the requested name.
ArgsPassThrough ==
    \A c \in 1..Len(called) :
        LET kw == called[c].kwargs IN
        /\ DOMAIN kw =
             {"project_name", "project_path", "param", "workingdir", "topology"}
        /\ kw.project_name = args.project
        /\ \E i \in 1..Len(prj_list) :
               EarliestAt(i, args.project) /\ kw.project_path = prj_list[i].path
        /\ kw.param = args.param
        /\ kw.workingdir = args.workingdir
        /\ kw.topology = args.topology

\* C5 witness: a call was made for a name that two records carry.
ArgsWitness ==
    /\ called # <<>>
    /\ Len(prj_list) = 2
    /\ prj_list[1].name = prj_list[2].name
    /\ prj_list[1].path # prj_list[2].path

\* C6: the module whose main is called is the one in the resolved
\* record's directory.
LoadsResolvedModule ==
    \A c \in 1..Len(called) : called[c].module = project.path

\* C7: when resolution found a record whose directory holds no userscript
\* module, the import fails with the load error and no main is called.
MissingModuleFails ==
    (Did("resolve", "ok") /\ fs[project.path] = "none" /\ Stepped("import")) =>
        /\ pc = "Failed"
        /\ error = ModuleNotFound
        /\ called = <<>>

\* C8: when the script's main raised, the invocation has failed with that
\* very error and raising it was the last thing that happened.
ScriptErrorPropagates ==
    raised # NoError =>
        /\ pc = "Failed"
        /\ error = raised
        /\ trace[Len(trace)] = Event("main", "raise")
        /\ Len(called) = 1

\* C8 witness: the script's main raised.
ScriptErrorWitness == raised # NoError /\ Did("main", "raise")

\* C9: no step takes an entry from the search path or reorders it; an
\* invocation whose resolution succeeded ends, however it ends, with the
\* path it started with plus the record's path as the last entry.
PathAppendOnly ==
    [][ /\ IsPrefix(sys_path, sys_path')
        /\ (pc' \in Terminal /\ project' # NoProject) =>
               sys_path' = Append(path0', project'.path)
        /\ (pc' \in Terminal /\ project' = NoProject) => sys_path' = path0'
      ]_vars

\* C9 witness: an invocation that ended in a load failure left its entry
\* behind an earlier invocation's.
PathWitness ==
    /\ pc = "Failed"
    /\ error = ModuleNotFound
    /\ path0 # <<>>
    /\ sys_path = Append(path0, project.path)

\* C10: within an invocation the stage only moves forward, a terminal
\* stage is final, no step runs twice, main is called at most once, and
\* Succeeded follows only the return of that one call.
ForwardOnly ==
    [][ /\ inv' = inv =>
              /\ Stage(pc') \in StageAfter(Stage(pc))
              /\ pc \in Terminal => pc' = pc
        /\ inv' # inv => Stage(pc') = "AwaitingResolution"
        /\ \A k \in 1..Len(trace') :
              trace'[k].outcome # "return" => Count(trace', trace'[k]) = 1
        /\ \A k, l \in 1..Len(trace') :
              (k # l /\ trace'[k].step = trace'[l].step) =>
                  {trace'[k].outcome, trace'[l].outcome} = {"call", "return"}
                  \/ {trace'[k].outcome, trace'[l].outcome} = {"call", "raise"}
        /\ Len(called') <= 1
        /\ pc' = "Succeeded" =>
              /\ Len(called') = 1
              /\ trace'[Len(trace')] = Event("main", "return")
              /\ error' = NoError
      ]_vars

\* C10 witness: an invocation succeeded.
SucceededWitness == pc = "Succeeded" /\ inv = 2

====
